---- MODULE Spec2Model ----
(***************************************************************************)
(* Model of InfrastructureApp (lib/app): the constructor and createStacks, *)
(* which instantiate the seven CDK stacks from one InfrastructureConfig,   *)
(* thread the handles one stack publishes into the constructors of the     *)
(* stacks that consume them, and declare addDependency edges.              *)
(*                                                                         *)
(* A run is one `new InfrastructureApp(app, envConfig)`.  Both entry       *)
(* points (bin/*.ts) perform such a run on the same envConfig.  A stack    *)
(* constructor is synchronous and may throw; nothing in the repository     *)
(* catches, so a throw ends the run where it happens.  Whether a           *)
(* constructor throws is a function of the configuration and the CDK       *)
(* context, so it is drawn once, together with the configuration.          *)
(***************************************************************************)
EXTENDS Naturals, Sequences, FiniteSets

VARIABLES
  config,     \* the InfrastructureConfig handed to every run (envConfig)
  throws,     \* the units whose stack constructor throws on this configuration
  pc,         \* per run: the block of createStacks about to execute, or a final state
  stacks,     \* per run: InfrastructureApp.stacks, unit -> published handles
  args,       \* per run: unit -> the handles its constructor was called with
  deps,       \* per run: the addDependency edges <<dependent, target>>
  order,      \* per run: the units assigned to this.stacks, in order
  invoked,    \* per run: the stack constructors called, in order
  failed,     \* per run: the unit whose constructor threw, or "none"
  writes,     \* per run: unit -> number of assignments to this.stacks.<unit>
  heap,       \* per run: number of construct objects allocated so far
  constructs, \* per run: unit -> the resources created inside the stack of that unit
  ingress,    \* per run: security group -> the ingress rules added to it
  props       \* per run: the properties the VPC, the bucket and the database were created with

vars == <<config, throws, pc, stacks, args, deps, order, invoked, failed, writes, heap,
          constructs, ingress, props>>

----------------------------------------------------------------------------
(* Bounds *)

\* at most this many stack constructors throw on the chosen configuration
MaxThrowing == 1

----------------------------------------------------------------------------
(* Static structure *)

Runs == {"cdk", "app"}

Units == {"network", "storage", "database", "auth", "compute", "serverless", "monitoring"}

\* the order of the blocks of createStacks
DeclOrder == <<"network", "storage", "database", "auth", "compute", "serverless", "monitoring">>

Index(u) == CHOOSE i \in 1..Len(DeclOrder) : DeclOrder[i] = u

FlagValues == {"true", "false", "undefined"}

\* JavaScript truthiness of an optional boolean: `if (x?.flag)`
Truthy(v) == v = "true"

\* `x?.flag !== false`
NotFalse(v) == v # "false"

\* the fields of InfrastructureConfig that createStacks and the published
\* handles depend on; "undefined" stands for an unset flag or an absent section
\* values of network.ipWhitelist; the empty set also stands for an absent list
Whitelists == {{}, {"0.0.0.0/0"}, {"203.0.113.7/32"}}

\* values of network.vpcId
VpcIds == {"undefined", "vpc-0a1b2c"}

\* the configuration without a network section
NoNetwork ==
  [createVpc |-> "undefined", vpcId |-> "undefined", natGateways |-> "undefined",
   ipWhitelist |-> {}]

\* a storage, database, serverless or monitoring section that sets nothing but
\* its create flag
StorageSection(create) ==
  [createBucket |-> create, enableLifecycle |-> "undefined", expireAfterDays |-> {}]

DatabaseSection(create) ==
  [createDatabase |-> create, multiAz |-> "undefined", deletionProtection |-> "undefined"]

ServerlessSection(create) == [createServerless |-> create, functions |-> <<>>]

MonitoringSection(create) ==
  [createMonitoring |-> create, createAlarms |-> "undefined",
   createDashboard |-> "undefined", essentialAlarmsOnly |-> "undefined"]

Configs ==
  [ environment : {"dev"},
    network    : {NoNetwork},
    storage    : {StorageSection(f) : f \in FlagValues},
    database   : {DatabaseSection(f) : f \in FlagValues},
    auth       : [createAuth : FlagValues],
    compute    : [createCompute : FlagValues, createAsg : FlagValues],
    serverless : {ServerlessSection(f) : f \in FlagValues},
    monitoring : {MonitoringSection(f) : f \in FlagValues} ]

\* configurations that vary the network section and the database flag
NetworkConfigs ==
  [ environment : {"dev"},
    network    : [createVpc : FlagValues, vpcId : VpcIds, natGateways : FlagValues,
                  ipWhitelist : Whitelists],
    storage    : {StorageSection("undefined")},
    database   : {DatabaseSection(f) : f \in FlagValues},
    auth       : [createAuth : {"undefined"}],
    compute    : [createCompute : {"undefined"}, createAsg : {"undefined"}],
    serverless : {ServerlessSection("undefined")},
    monitoring : {MonitoringSection("undefined")} ]

\* the environment names the stack constructors distinguish
Environments == {"dev", "staging", "prod"}

\* values of storage.expireAfterDays: absent, or a number of days
ExpireAfterDays == {{}, {90}}

\* configurations that vary the storage and the database section
ResourceConfigs ==
  [ environment : Environments,
    network    : {NoNetwork},
    storage    : [createBucket : {"undefined", "false"}, enableLifecycle : FlagValues,
                  expireAfterDays : ExpireAfterDays],
    database   : [createDatabase : {"true", "false"}, multiAz : FlagValues,
                  deletionProtection : FlagValues],
    auth       : [createAuth : {"undefined"}],
    compute    : [createCompute : {"undefined"}, createAsg : {"undefined"}],
    serverless : {ServerlessSection("undefined")},
    monitoring : {MonitoringSection("undefined")} ]

\* values of serverless.functions: the names of the configured functions
FunctionLists == {<<>>, <<"api">>, <<"api", "worker">>}

\* configurations that vary the monitoring section and the units whose
\* handles the monitoring stack is given
MonitoringConfigs ==
  [ environment : {"dev", "prod"},
    network    : {NoNetwork},
    storage    : {StorageSection("false")},
    database   : {DatabaseSection(f) : f \in {"true", "false"}},
    auth       : [createAuth : {"undefined"}],
    compute    : [createCompute : {"true", "false"}, createAsg : {"true", "false"}],
    serverless : [createServerless : {"true", "false"}, functions : FunctionLists],
    monitoring : [createMonitoring : {"true"}, createAlarms : FlagValues,
                  createDashboard : FlagValues, essentialAlarmsOnly : FlagValues] ]

----------------------------------------------------------------------------
(* lib/config/env.ts: the configuration built from environment variables *)

\* process.env: each variable is unset, empty or set
Envs == [ENVIRONMENT : {"unset", "", "dev", "staging", "prod"}]

\* process.env[key] || defaultValue
getEnv(env, key, defaultValue) ==
  IF env[key] \in {"unset", ""} THEN defaultValue ELSE env[key]

\* the serverless section is left out outside production
createConfigFromEnvNoServerless(env) ==
  [ environment |-> getEnv(env, "ENVIRONMENT", "dev"),
    network    |-> [createVpc |-> "true", vpcId |-> "undefined", natGateways |-> "false",
                    ipWhitelist |-> {"0.0.0.0/0"}],
    storage    |-> [createBucket |-> "true", enableLifecycle |-> "true",
                    expireAfterDays |-> {}],
    database   |-> [createDatabase |-> "true", multiAz |-> "false",
                    deletionProtection |-> "false"],
    auth       |-> [createAuth |-> "true"],
    compute    |-> [createCompute |-> "true", createAsg |-> "undefined"],
    serverless |-> ServerlessSection(
                      IF getEnv(env, "ENVIRONMENT", "dev") = "prod" THEN "true" ELSE "undefined"),
    monitoring |-> [createMonitoring |-> "true", createAlarms |-> "true",
                    createDashboard |-> "false", essentialAlarmsOnly |-> "true"] ]

createConfigFromEnv(env) ==
  [ environment |-> getEnv(env, "ENVIRONMENT", "dev"),
    network    |-> [createVpc |-> "true", vpcId |-> "undefined", natGateways |-> "false",
                    ipWhitelist |-> {"0.0.0.0/0"}],
    storage    |-> [createBucket |-> "true", enableLifecycle |-> "true",
                    expireAfterDays |-> {}],
    database   |-> [createDatabase |-> "true", multiAz |-> "false",
                    deletionProtection |-> "false"],
    auth       |-> [createAuth |-> "true"],
    compute    |-> [createCompute |-> "true", createAsg |-> "undefined"],
    serverless |-> ServerlessSection("true"),
    monitoring |-> [createMonitoring |-> "true", createAlarms |-> "true",
                    createDashboard |-> "false", essentialAlarmsOnly |-> "true"] ]

----------------------------------------------------------------------------
(* Handles: references to construct objects *)

Undefined == [run |-> "none", owner |-> "undefined", name |-> "undefined", obj |-> 0]

\* the object allocated by `new X(this, name, ...)` inside the stack of unit u
New(r, u, h, o) == [run |-> r, owner |-> u, name |-> h, obj |-> o]

\* `this.stacks.<u>?.<h>`
Field(s, u, h) == IF u \in DOMAIN s THEN s[u][h] ELSE Undefined

----------------------------------------------------------------------------
(* Stack constructors: the handles each one publishes *)

NetworkStack(r, cfg, n) ==
  [ vpc                      |-> New(r, "network", "vpc", n + 1),
    databaseSecurityGroup    |-> New(r, "network", "databaseSecurityGroup", n + 2),
    applicationSecurityGroup |-> New(r, "network", "applicationSecurityGroup", n + 3) ]

StorageStack(r, cfg, n) ==
  [ bucket |-> IF NotFalse(cfg.storage.createBucket)
               THEN New(r, "storage", "bucket", n + 1)
               ELSE Undefined ]

DatabaseStack(r, cfg, a, n) ==
  [ databaseInstance |-> IF Truthy(cfg.database.createDatabase)
                         THEN New(r, "database", "databaseInstance", n + 1)
                         ELSE Undefined ]

AuthStack(r, cfg, a, n) ==
  [ userPool |-> IF Truthy(cfg.auth.createAuth)
                 THEN New(r, "auth", "userPool", n + 1)
                 ELSE Undefined ]

\* the single instance is created next to the auto-scaling group
ComputeStackBoth(r, cfg, a, n) ==
  [ instance         |-> IF Truthy(cfg.compute.createCompute)
                         THEN New(r, "compute", "instance", n + 1)
                         ELSE Undefined,
    autoScalingGroup |-> IF Truthy(cfg.compute.createCompute) /\ Truthy(cfg.compute.createAsg)
                         THEN New(r, "compute", "autoScalingGroup", n + 2)
                         ELSE Undefined ]

ComputeStack(r, cfg, a, n) ==
  [ instance         |-> IF Truthy(cfg.compute.createCompute) /\ ~Truthy(cfg.compute.createAsg)
                         THEN New(r, "compute", "instance", n + 1)
                         ELSE Undefined,
    autoScalingGroup |-> IF Truthy(cfg.compute.createCompute) /\ Truthy(cfg.compute.createAsg)
                         THEN New(r, "compute", "autoScalingGroup", n + 1)
                         ELSE Undefined ]

\* `functions` is a field initialiser (= {}): the record object always exists
ServerlessStack(r, cfg, a, n) ==
  [ functions |-> New(r, "serverless", "functions", n + 1) ]

MonitoringStack(r, cfg, a, n) ==
  [ alarmTopic |-> IF NotFalse(cfg.monitoring.createMonitoring)
                   THEN New(r, "monitoring", "alarmTopic", n + 1)
                   ELSE Undefined ]

----------------------------------------------------------------------------
(* Stack constructors: the resources each one creates and the ingress rules *)
(* it adds, as pairs <<security group, rule>>                               *)

Rule(peer, port) == [peer |-> peer, port |-> port]

\* ec2.Peer.anyIpv4()
AnyIpv4 == "0.0.0.0/0"

SecurityGroups == {"databaseSecurityGroup", "applicationSecurityGroup"}

\* SecurityGroup.addIngressRule: a rule equal to one already present is not added again
AddIngressRules(g, added) == [x \in DOMAIN g |-> g[x] \cup {e[2] : e \in {y \in added : y[1] = x}}]

NetworkConstructs(cfg) ==
  (IF cfg.network.createVpc = "false" /\ cfg.network.vpcId # "undefined"
   THEN {"VpcLookup"} ELSE {"Vpc"})
  \cup {"DatabaseSecurityGroup", "ApplicationSecurityGroup"}

NetworkIngress(cfg) ==
  {<<"databaseSecurityGroup", Rule("applicationSecurityGroup", 5432)>>}
  \cup {<<"databaseSecurityGroup", Rule(ip, 5432)>> : ip \in cfg.network.ipWhitelist}
  \cup {<<"applicationSecurityGroup", Rule(ip, port)>> :
          ip \in cfg.network.ipWhitelist, port \in {22, 80, 443}}

\* the CloudFront distribution and its log bucket, created inside the same
\* branch under storage.createDistribution, are not distinguished here
StorageConstructs(cfg) ==
  IF NotFalse(cfg.storage.createBucket) THEN {"Bucket", "BucketPolicy"} ELSE {}

DatabaseConstructs(cfg, a) ==
  IF Truthy(cfg.database.createDatabase)
  THEN {"DatabaseSecret", "ParameterGroup", "Database"} ELSE {}

\* securityGroup.addIngressRule(ec2.Peer.anyIpv4(), ec2.Port.tcp(5432), ...)
\* on the security group the constructor was handed
DatabaseIngress(cfg, a) ==
  IF Truthy(cfg.database.createDatabase)
  THEN {<<a.securityGroup.name, Rule(AnyIpv4, 5432)>>} ELSE {}

AuthConstructs(cfg, a) ==
  IF Truthy(cfg.auth.createAuth)
  THEN {"UserPool", "IdentityPool", "AuthenticatedRole", "UnauthenticatedRole",
        "IdentityPoolRoleAttachment", "CognitoAdminPolicy"}
  ELSE {}

ComputeConstructs(cfg, a) ==
  IF Truthy(cfg.compute.createCompute)
  THEN {"InstanceRole", "InstanceProfile"}
       \cup (IF Truthy(cfg.compute.createAsg) THEN {"AutoScalingGroup"} ELSE {"Instance"})
  ELSE {}

ServerlessConstructs(cfg, a) ==
  IF Truthy(cfg.serverless.createServerless) THEN {"LambdaExecutionRole"} ELSE {}

\* the construct ids q when the condition c holds, none otherwise
When(c, q) == IF c THEN q ELSE <<>>

\* Object.entries(resources.functions): the record ServerlessStack fills
\* with one entry per element of config.serverless.functions
Functions(cfg, a) == IF a.functions = Undefined THEN <<>> ELSE cfg.serverless.functions

\* `${functionName}ErrorAlarm` and `${functionName}DurationAlarm` for each function
RECURSIVE LambdaAlarms(_)
LambdaAlarms(fns) ==
  IF fns = <<>> THEN <<>>
  ELSE <<Head(fns) \o "ErrorAlarm", Head(fns) \o "DurationAlarm">> \o LambdaAlarms(Tail(fns))

\* the ids of the constructs the MonitoringStack constructor creates in its
\* own scope, in the order of the `new X(this, id, ...)` calls
MonitoringIds(cfg, a) ==
  IF NotFalse(cfg.monitoring.createMonitoring)
  THEN <<"AlarmTopic">>
       \o When(NotFalse(cfg.monitoring.createAlarms),
               When(a.instance # Undefined,
                    <<"InstanceCpuAlarm">>
                    \o When(~Truthy(cfg.monitoring.essentialAlarmsOnly),
                            <<"InstanceStatusCheckAlarm">>))
               \o When(a.autoScalingGroup # Undefined, <<"AsgCpuAlarm">>)
               \o When(a.databaseInstance # Undefined,
                       <<"RdsCpuAlarm">>
                       \o When(~Truthy(cfg.monitoring.essentialAlarmsOnly),
                               <<"RdsFreeStorageSpaceAlarm">>))
               \o When(a.functions # Undefined /\ ~Truthy(cfg.monitoring.essentialAlarmsOnly),
                       LambdaAlarms(Functions(cfg, a))))
       \o When(Truthy(cfg.monitoring.createDashboard),
               <<"Dashboard">>
               \o When(a.functions # Undefined /\ cfg.environment # "dev",
                       LambdaAlarms(Functions(cfg, a))))
       \o <<"AlarmTopicArn">>
       \o When(Truthy(cfg.monitoring.createDashboard), <<"DashboardName">>)
  ELSE <<>>

\* some id occurs twice in q
DuplicateId(q) == \E i \in 1..Len(q) : \E j \in 1..Len(q) : i < j /\ q[i] = q[j]

\* the constructs created from the ids q: `new X(scope, id)` throws when the
\* scope already has a child named id, which ends the constructor there
Created(q) ==
  {q[i] : i \in {k \in 1..Len(q) : ~DuplicateId(SubSeq(q, 1, k))}}

MonitoringConstructs(cfg, a) == Created(MonitoringIds(cfg, a))

\* the constructor of unit u, called with a, is ended by a duplicate construct id
Rejects(u, a) == u = "monitoring" /\ DuplicateId(MonitoringIds(config, a))

----------------------------------------------------------------------------
(* Stack constructors: the properties the resources are created with *)

NoProperties == <<>>

\* before any constructor ran: no VPC, no bucket, no database instance
InitialProps ==
  [natGateways |-> "none", lifecycleRules |-> {}, multiAz |-> "none",
   deletionProtection |-> "none"]

SetProps(old, new) == [f \in DOMAIN old |-> IF f \in DOMAIN new THEN new[f] ELSE old[f]]

\* a boolean as the configuration writes it
Bool(b) == IF b THEN "true" ELSE "false"

\* natGateways: config.network?.natGateways ? undefined : 0, where undefined
\* lets the Vpc construct create its default number of NAT gateways
NetworkProps(cfg) ==
  IF cfg.network.createVpc = "false" /\ cfg.network.vpcId # "undefined"
  THEN NoProperties
  ELSE [natGateways |-> IF Truthy(cfg.network.natGateways) THEN "default" ELSE "0"]

\* the local lifecycleRules: one rule, with an expiration if expireAfterDays is truthy
LifecycleRules(cfg) ==
  IF Truthy(cfg.storage.enableLifecycle)
  THEN {[expiration |-> {d \in cfg.storage.expireAfterDays : d # 0}]}
  ELSE {}

\* the lifecycleRules the bucket is created with
BucketLifecycleRules(cfg) ==
  IF cfg.environment = "dev" /\ Truthy(cfg.storage.enableLifecycle)
  THEN {[expiration |-> {}]}
  ELSE LifecycleRules(cfg)

StorageProps(cfg) ==
  IF NotFalse(cfg.storage.createBucket)
  THEN [lifecycleRules |-> BucketLifecycleRules(cfg)]
  ELSE NoProperties

\* multiAz and deletionProtection are enabled in production whatever is configured
DatabasePropsProdOnly(cfg, a) ==
  IF Truthy(cfg.database.createDatabase)
  THEN [multiAz            |-> Bool(cfg.environment = "prod"),
        deletionProtection |-> Bool(cfg.environment = "prod")]
  ELSE NoProperties

DatabaseProps(cfg, a) ==
  IF Truthy(cfg.database.createDatabase)
  THEN [multiAz            |-> IF cfg.database.multiAz # "undefined"
                               THEN cfg.database.multiAz
                               ELSE Bool(cfg.environment = "prod"),
        deletionProtection |-> IF cfg.database.deletionProtection # "undefined"
                               THEN cfg.database.deletionProtection
                               ELSE Bool(cfg.environment = "prod")]
  ELSE NoProperties

\* the number of objects a stack constructor allocated: one per published handle
Allocated(h) == Cardinality({f \in DOMAIN h : h[f] # Undefined})

----------------------------------------------------------------------------
(* createStacks: conditions, arguments and addDependency calls per block *)

\* a process-wide registry of created databases: a second run skips the unit
DatabaseEnabledOncePerProcess(cfg) ==
  Truthy(cfg.database.createDatabase) /\ \A q \in DOMAIN stacks : "database" \notin DOMAIN stacks[q]

DatabaseEnabled(cfg)   == Truthy(cfg.database.createDatabase)
AuthEnabled(cfg)       == Truthy(cfg.auth.createAuth)
\* the compute block tests `createCompute !== false` while the stack tests truthiness
ComputeEnabledOptOut(cfg) == NotFalse(cfg.compute.createCompute)

ComputeEnabled(cfg)    == Truthy(cfg.compute.createCompute)
ServerlessEnabled(cfg) == Truthy(cfg.serverless.createServerless)

\* monitoring treated as opt-in like the other units: `if (monitoring?.createMonitoring)`
MonitoringEnabledOptIn(cfg) == Truthy(cfg.monitoring.createMonitoring)

\* monitoring created only when there is a compute unit to monitor
MonitoringEnabledNeedsCompute(cfg) ==
  NotFalse(cfg.monitoring.createMonitoring) /\ Truthy(cfg.compute.createCompute)

MonitoringEnabled(cfg) == NotFalse(cfg.monitoring.createMonitoring)

\* the database is handed the application security group
DatabaseArgsWrongGroup(s) ==
  [ vpc           |-> s["network"].vpc,
    securityGroup |-> s["network"].applicationSecurityGroup ]

DatabaseArgs(s) ==
  [ vpc           |-> s["network"].vpc,
    securityGroup |-> s["network"].databaseSecurityGroup ]

\* a stand-in bucket is passed when the storage unit published none
AuthArgsDefaultBucket(s) ==
  [ bucket |-> IF Field(s, "storage", "bucket") = Undefined
               THEN New("none", "auth", "defaultBucket", 0)
               ELSE Field(s, "storage", "bucket") ]

AuthArgs(s) ==
  [ bucket |-> Field(s, "storage", "bucket") ]

\* a process-wide registry of handles: the network handles of the first
\* entry point are handed to every run
ComputeArgsShared(s) ==
  [ vpc           |-> IF "network" \in DOMAIN stacks["cdk"]
                      THEN stacks["cdk"]["network"].vpc ELSE s["network"].vpc,
    securityGroup |-> s["network"].applicationSecurityGroup ]

ComputeArgs(s) ==
  [ vpc           |-> s["network"].vpc,
    securityGroup |-> s["network"].applicationSecurityGroup ]

ServerlessArgs(s) ==
  [ vpc |-> s["network"].vpc ]

MonitoringArgs(s) ==
  [ instance         |-> Field(s, "compute", "instance"),
    autoScalingGroup |-> Field(s, "compute", "autoScalingGroup"),
    databaseInstance |-> Field(s, "database", "databaseInstance"),
    functions        |-> Field(s, "serverless", "functions") ]

NoArgs == [ none |-> Undefined ]

DatabaseDeps(s)   == {"network"}
AuthDeps(s)       == IF Field(s, "storage", "bucket") # Undefined THEN {"storage"} ELSE {}

\* the addDependency call of the compute block is missing
ComputeDepsForgotten(s) == {}

ComputeDeps(s)    == {"network"}

\* addDependency called on the stack itself as well
ServerlessDepsSelf(s) == {"network", "serverless"}

ServerlessDeps(s) == {"network"}

\* addDependency called without the `if (this.stacks.<unit>)` guards
MonitoringDepsUnguarded(s) == {"compute", "database", "serverless"}

MonitoringDeps(s) == {d \in {"compute", "database", "serverless"} : d \in DOMAIN s}

\* the monitoring block placed before the compute and serverless blocks
SuccessorMonitoringEarly(u) ==
  CASE u = "auth"       -> "monitoring"
    [] u = "monitoring" -> "compute"
    [] u = "serverless" -> "Completed"
    [] OTHER            -> DeclOrder[Index(u) + 1]

\* the auth block jumps back to the storage block
SuccessorBackToStorage(u) ==
  IF u = "auth" THEN "storage"
  ELSE IF Index(u) = Len(DeclOrder) THEN "Completed" ELSE DeclOrder[Index(u) + 1]

\* the serverless block is missing from createStacks
SuccessorSkipsServerless(u) ==
  IF u = "compute" THEN "monitoring"
  ELSE IF Index(u) = Len(DeclOrder) THEN "Completed" ELSE DeclOrder[Index(u) + 1]

\* the storage block placed behind the database block
SuccessorStorageLate(u) ==
  CASE u = "network"  -> "database"
    [] u = "database" -> "storage"
    [] u = "storage"  -> "auth"
    [] OTHER          -> IF Index(u) = Len(DeclOrder) THEN "Completed"
                         ELSE DeclOrder[Index(u) + 1]

\* the block that follows the block of unit u
Successor(u) == IF Index(u) = Len(DeclOrder) THEN "Completed" ELSE DeclOrder[Index(u) + 1]

----------------------------------------------------------------------------
(* Steps of one block *)

\* s with the slot of unit u set to h
Assign(s, u, h) == [x \in DOMAIN s \cup {u} |-> IF x = u THEN h ELSE s[x]]

\* a disabled unit treated as an error that ends the run
SkipFails(r, u) ==
  /\ pc' = [pc EXCEPT ![r] = "Failed"]
  /\ failed' = [failed EXCEPT ![r] = u]
  /\ UNCHANGED <<config, throws, stacks, args, deps, order, invoked, writes, heap>>

\* the condition of the block is false: nothing happens
Skip(r, u) ==
  /\ pc' = [pc EXCEPT ![r] = Successor(u)]
  /\ UNCHANGED <<config, throws, stacks, args, deps, order, invoked, failed, writes, heap>>

\* the slot is assigned although the constructor threw
ThrowRecorded(r, u, a) ==
  /\ pc' = [pc EXCEPT ![r] = "Failed"]
  /\ failed' = [failed EXCEPT ![r] = u]
  /\ invoked' = [invoked EXCEPT ![r] = Append(@, u)]
  /\ args' = [args EXCEPT ![r] = Assign(@, u, a)]
  /\ stacks' = [stacks EXCEPT ![r] = Assign(@, u, [none |-> Undefined])]
  /\ order' = [order EXCEPT ![r] = Append(@, u)]
  /\ writes' = [writes EXCEPT ![r][u] = @ + 1]
  /\ UNCHANGED <<config, throws, deps, heap>>

\* the exception is caught and createStacks goes on with the next block
ThrowSwallowed(r, u, a) ==
  /\ pc' = [pc EXCEPT ![r] = Successor(u)]
  /\ failed' = [failed EXCEPT ![r] = u]
  /\ invoked' = [invoked EXCEPT ![r] = Append(@, u)]
  /\ args' = [args EXCEPT ![r] = Assign(@, u, a)]
  /\ UNCHANGED <<config, throws, stacks, deps, order, writes, heap>>

\* the constructor of unit u is called with a and throws: createStacks and
\* the InfrastructureApp constructor are left by the exception
Throw(r, u, a) ==
  /\ pc' = [pc EXCEPT ![r] = "Failed"]
  /\ failed' = [failed EXCEPT ![r] = u]
  /\ invoked' = [invoked EXCEPT ![r] = Append(@, u)]
  /\ args' = [args EXCEPT ![r] = Assign(@, u, a)]
  /\ UNCHANGED <<config, throws, stacks, deps, order, writes, heap>>

\* every consumer block constructs the network stack anew and re-assigns its slot
BuildRebuildsNetwork(r, u, a, h, ds) ==
  /\ pc' = [pc EXCEPT ![r] = Successor(u)]
  /\ invoked' = [invoked EXCEPT ![r] = Append(@, u)]
  /\ args' = [args EXCEPT ![r] = Assign(@, u, a)]
  /\ stacks' = [stacks EXCEPT ![r] =
                  Assign(Assign(@, "network", NetworkStack(r, config, heap[r] + Allocated(h))), u, h)]
  /\ order' = [order EXCEPT ![r] = Append(@, u)]
  /\ writes' = [writes EXCEPT ![r] =
                  [x \in Units |-> @[x] + (IF x = u THEN 1 ELSE 0)
                                        + (IF x = "network" /\ u # "network" THEN 1 ELSE 0)]]
  /\ deps' = [deps EXCEPT ![r] = @ \cup {<<u, d>> : d \in ds}]
  /\ heap' = [heap EXCEPT ![r] = @ + Allocated(h) + 3]
  /\ UNCHANGED <<config, throws, failed>>

\* the constructor of unit u is called with a and returns a stack publishing
\* h; the stack is assigned to this.stacks.<u> and addDependency is called
\* for every unit of ds
Build(r, u, a, h, ds) ==
  /\ pc' = [pc EXCEPT ![r] = Successor(u)]
  /\ invoked' = [invoked EXCEPT ![r] = Append(@, u)]
  /\ args' = [args EXCEPT ![r] = Assign(@, u, a)]
  /\ stacks' = [stacks EXCEPT ![r] = Assign(@, u, h)]
  /\ order' = [order EXCEPT ![r] = Append(@, u)]
  /\ writes' = [writes EXCEPT ![r][u] = @ + 1]
  /\ deps' = [deps EXCEPT ![r] = @ \cup {<<u, d>> : d \in ds}]
  /\ heap' = [heap EXCEPT ![r] = @ + Allocated(h)]
  /\ UNCHANGED <<config, throws, failed>>

Block(r, u, enabled, a, h, ds) ==
  IF enabled
  THEN IF u \in throws \/ Rejects(u, a) THEN Throw(r, u, a) ELSE Build(r, u, a, h, ds)
  ELSE Skip(r, u)

\* what the constructor of unit u does besides publishing handles: it
\* creates the resources c inside its stack, with the properties p, and adds
\* the ingress rules g.
\* A constructor that throws may do so before or after these effects.
Effects(r, u, enabled, c, g, p) ==
  IF enabled
  THEN IF u \in throws
       THEN \E done \in BOOLEAN :
              /\ constructs' = [constructs EXCEPT ![r][u] = IF done THEN c ELSE @]
              /\ ingress' = [ingress EXCEPT ![r] = IF done THEN AddIngressRules(@, g) ELSE @]
              /\ props' = [props EXCEPT ![r] = IF done THEN SetProps(@, p) ELSE @]
       ELSE /\ constructs' = [constructs EXCEPT ![r][u] = c]
            /\ ingress' = [ingress EXCEPT ![r] = AddIngressRules(@, g)]
            /\ props' = [props EXCEPT ![r] = SetProps(@, p)]
  ELSE UNCHANGED <<constructs, ingress, props>>

----------------------------------------------------------------------------
(* Actions *)

Executing(r) == pc[r] \in Units

\* new InfrastructureApp(app, config): store app and config, enter createStacks.
\* The constructor runs to its end synchronously, so no other run is under way.
Constructor(r) ==
  /\ pc[r] = "Planning"
  /\ \A q \in Runs : ~Executing(q)
  /\ pc' = [pc EXCEPT ![r] = DeclOrder[1]]
  /\ UNCHANGED <<config, throws, stacks, args, deps, order, invoked, failed, writes, heap,
                 constructs, ingress, props>>

CreateNetwork(r) ==
  /\ pc[r] = "network"
  /\ Block(r, "network", TRUE, NoArgs, NetworkStack(r, config, heap[r]), {})
  /\ Effects(r, "network", TRUE, NetworkConstructs(config), NetworkIngress(config),
             NetworkProps(config))

CreateStorage(r) ==
  /\ pc[r] = "storage"
  /\ Block(r, "storage", TRUE, NoArgs, StorageStack(r, config, heap[r]), {})
  /\ Effects(r, "storage", TRUE, StorageConstructs(config), {}, StorageProps(config))

CreateDatabase(r) ==
  /\ pc[r] = "database"
  /\ Block(r, "database", DatabaseEnabled(config), DatabaseArgs(stacks[r]),
           DatabaseStack(r, config, DatabaseArgs(stacks[r]), heap[r]),
           DatabaseDeps(stacks[r]))
  /\ Effects(r, "database", DatabaseEnabled(config),
             DatabaseConstructs(config, DatabaseArgs(stacks[r])),
             DatabaseIngress(config, DatabaseArgs(stacks[r])),
             DatabaseProps(config, DatabaseArgs(stacks[r])))

CreateAuth(r) ==
  /\ pc[r] = "auth"
  /\ Block(r, "auth", AuthEnabled(config), AuthArgs(stacks[r]),
           AuthStack(r, config, AuthArgs(stacks[r]), heap[r]),
           AuthDeps(stacks[r]))
  /\ Effects(r, "auth", AuthEnabled(config),
             AuthConstructs(config, AuthArgs(stacks[r])), {}, NoProperties)

CreateCompute(r) ==
  /\ pc[r] = "compute"
  /\ Block(r, "compute", ComputeEnabled(config), ComputeArgs(stacks[r]),
           ComputeStack(r, config, ComputeArgs(stacks[r]), heap[r]),
           ComputeDeps(stacks[r]))
  /\ Effects(r, "compute", ComputeEnabled(config),
             ComputeConstructs(config, ComputeArgs(stacks[r])), {}, NoProperties)

CreateServerless(r) ==
  /\ pc[r] = "serverless"
  /\ Block(r, "serverless", ServerlessEnabled(config), ServerlessArgs(stacks[r]),
           ServerlessStack(r, config, ServerlessArgs(stacks[r]), heap[r]),
           ServerlessDeps(stacks[r]))
  /\ Effects(r, "serverless", ServerlessEnabled(config),
             ServerlessConstructs(config, ServerlessArgs(stacks[r])), {}, NoProperties)

CreateMonitoring(r) ==
  /\ pc[r] = "monitoring"
  /\ Block(r, "monitoring", MonitoringEnabled(config), MonitoringArgs(stacks[r]),
           MonitoringStack(r, config, MonitoringArgs(stacks[r]), heap[r]),
           MonitoringDeps(stacks[r]))
  /\ Effects(r, "monitoring", MonitoringEnabled(config),
             MonitoringConstructs(config, MonitoringArgs(stacks[r])), {}, NoProperties)

----------------------------------------------------------------------------
(* Specification *)

Empty == [x \in {} |-> Undefined]

\* no run has started: the state before any `new InfrastructureApp`
Fresh ==
  /\ throws \in {t \in SUBSET Units : Cardinality(t) <= MaxThrowing}
  /\ pc = [r \in Runs |-> "Planning"]
  /\ stacks = [r \in Runs |-> Empty]
  /\ args = [r \in Runs |-> Empty]
  /\ deps = [r \in Runs |-> {}]
  /\ order = [r \in Runs |-> <<>>]
  /\ invoked = [r \in Runs |-> <<>>]
  /\ failed = [r \in Runs |-> "none"]
  /\ writes = [r \in Runs |-> [u \in Units |-> 0]]
  /\ heap = [r \in Runs |-> 0]
  /\ constructs = [r \in Runs |-> [u \in Units |-> {}]]
  /\ ingress = [r \in Runs |-> [g \in SecurityGroups |-> {}]]
  /\ props = [r \in Runs |-> InitialProps]

Init == config \in Configs /\ Fresh

\* runs on configurations that vary the network section
InitNetwork == config \in NetworkConfigs /\ Fresh

\* runs on the configuration createConfigFromEnv returns (envConfig)
InitEnv == (\E env \in Envs : config = createConfigFromEnv(env)) /\ Fresh

\* runs on configurations that vary the storage and the database section
InitResources == config \in ResourceConfigs /\ Fresh

\* runs on configurations that vary the monitoring section
InitMonitoring == config \in MonitoringConfigs /\ Fresh

Next ==
  \E r \in Runs :
    \/ Constructor(r)
    \/ CreateNetwork(r)
    \/ CreateStorage(r)
    \/ CreateDatabase(r)
    \/ CreateAuth(r)
    \/ CreateCompute(r)
    \/ CreateServerless(r)
    \/ CreateMonitoring(r)

Spec == Init /\ [][Next]_vars

SpecNetwork == InitNetwork /\ [][Next]_vars

SpecEnv == InitEnv /\ [][Next]_vars

SpecResources == InitResources /\ [][Next]_vars

SpecMonitoring == InitMonitoring /\ [][Next]_vars

\* createStacks is straight-line synchronous code: a step that can be taken is taken
FairSpec == Init /\ [][Next]_vars /\ WF_vars(Next)

----------------------------------------------------------------------------
(* Vocabulary of the properties *)

Final(r) == pc[r] \in {"Completed", "Failed"}

Range(q) == {q[i] : i \in 1..Len(q)}

PosIn(q, u) == CHOOSE i \in 1..Len(q) : q[i] = u

Before(q, d, u) == d \in Range(q) /\ u \in Range(q) /\ PosIn(q, d) < PosIn(q, u)

\* the dependency relation between units
DependsOn(u) ==
  CASE u = "database"   -> {"network"}
    [] u = "compute"    -> {"network"}
    [] u = "serverless" -> {"network"}
    [] u = "auth"       -> {"storage"}
    [] u = "monitoring" -> {"compute", "database", "serverless"}
    [] OTHER            -> {}

\* the enablement predicate of each unit; network and storage have none
EnablementPredicate(u) ==
  CASE u = "database"   -> config.database.createDatabase = "true"
    [] u = "auth"       -> config.auth.createAuth = "true"
    [] u = "compute"    -> config.compute.createCompute = "true"
    [] u = "serverless" -> config.serverless.createServerless = "true"
    [] u = "monitoring" -> config.monitoring.createMonitoring # "false"
    [] OTHER            -> TRUE

Conditional == {"database", "auth", "compute", "serverless", "monitoring"}

\* the handles each unit requires: <<parameter, producing unit, handle>>
Requires(u) ==
  CASE u = "database"   -> {<<"vpc", "network", "vpc">>,
                            <<"securityGroup", "network", "databaseSecurityGroup">>}
    [] u = "compute"    -> {<<"vpc", "network", "vpc">>,
                            <<"securityGroup", "network", "applicationSecurityGroup">>}
    [] u = "serverless" -> {<<"vpc", "network", "vpc">>}
    [] u = "auth"       -> {<<"bucket", "storage", "bucket">>}
    [] u = "monitoring" -> {<<"instance", "compute", "instance">>,
                            <<"autoScalingGroup", "compute", "autoScalingGroup">>,
                            <<"databaseInstance", "database", "databaseInstance">>,
                            <<"functions", "serverless", "functions">>}
    [] OTHER            -> {}

\* the execution order of a configuration: the enabled units in declaration order
Plan == SelectSeq(DeclOrder, EnablementPredicate)

\* some enabled unit depends on a disabled unit
UnsatisfiedDependency ==
  \E b \in Units : \E a \in DependsOn(b) : EnablementPredicate(b) /\ ~EnablementPredicate(a)

\* the block of unit u lies behind run r
Passed(r, u) ==
  \/ pc[r] = "Completed"
  \/ pc[r] \in Units /\ Index(u) < Index(pc[r])
  \/ pc[r] = "Failed" /\ Index(u) < Index(failed[r])

----------------------------------------------------------------------------
(* C1: in the sequence of instantiated units, every enabled unit that a    *)
(* unit U depends on is instantiated strictly before U.                    *)

C1_DependenciesFirst ==
  \A r \in Runs : \A u \in Range(order[r]) : \A d \in DependsOn(u) :
    EnablementPredicate(d) => Before(order[r], d, u)

C1_Witness ==
  \E r \in Runs :
    /\ pc[r] = "Completed"
    /\ Before(order[r], "compute", "monitoring")
    /\ Before(order[r], "network", "database")
    /\ Before(order[r], "storage", "auth")

(* C2: once its block has been executed, a unit is instantiated if and     *)
(* only if its enablement predicate holds (createDatabase, createAuth,     *)
(* createCompute, createServerless true; createMonitoring not false), and  *)
(* no unit whose predicate is false is ever instantiated.                  *)

C2_EnablementCorrect ==
  \A r \in Runs : \A u \in Conditional :
    /\ u \in DOMAIN stacks[r] => EnablementPredicate(u)
    /\ Passed(r, u) => (u \in DOMAIN stacks[r] <=> EnablementPredicate(u))

C2_Witness ==
  \E r \in Runs :
    /\ pc[r] = "Completed"
    /\ config.monitoring.createMonitoring = "undefined"
    /\ config.auth.createAuth = "undefined"
    /\ config.compute.createCompute = "false"
    /\ DOMAIN stacks[r] = {"network", "storage", "database", "monitoring"}

(* C3 as stated: an enabled unit whose dependency is disabled is never     *)
(* instantiated, the run fails instead.                                    *)

C4_HandlePropagation ==
  \A r \in Runs : \A b \in DOMAIN stacks[r] : \A q \in Requires(b) :
    /\ args[r][b][q[1]] = Field(stacks[r], q[2], q[3])
    /\ q[2] = "network" =>
         /\ args[r][b][q[1]].run = r
         /\ args[r][b][q[1]].owner = "network"
         /\ args[r][b][q[1]].name = q[3]

C4_Witness ==
  \E r \in Runs :
    /\ pc[r] = "Completed"
    /\ DOMAIN stacks[r] = Units
    /\ args[r]["database"].securityGroup = stacks[r]["network"].databaseSecurityGroup
    /\ args[r]["monitoring"].autoScalingGroup # Undefined
    /\ args[r]["auth"].bucket # Undefined

(* C5: two runs on the same configuration end with the same sequence of    *)
(* instantiated units and the same set of depends-on edges.                *)

C5_Deterministic ==
  \A r \in Runs : \A q \in Runs :
    Final(r) /\ Final(q) =>
      /\ order[r] = order[q]
      /\ deps[r] = deps[q]
      /\ pc[r] = pc[q]

C5_Witness ==
  \A r \in Runs : pc[r] = "Completed" /\ Len(order[r]) >= 5 /\ Cardinality(deps[r]) >= 3

(* C6: when the constructor of the unit at position i of the execution     *)
(* order throws, the run ends failed on exactly that unit and the units    *)
(* completed are exactly the ones before it in the order, in order.        *)

C6_CompletedPrefix ==
  \A r \in Runs :
    /\ pc[r] = "Failed" =>
         \E i \in 1..Len(Plan) :
           /\ failed[r] = Plan[i]
           /\ Plan[i] \in throws
           /\ order[r] = SubSeq(Plan, 1, i - 1)
           /\ DOMAIN stacks[r] = Range(order[r])
           /\ invoked[r] = SubSeq(Plan, 1, i)
    /\ (invoked[r] # <<>> /\ invoked[r][Len(invoked[r])] \in throws) => pc[r] = "Failed"

C6_Witness ==
  \E r \in Runs :
    /\ pc[r] = "Failed"
    /\ Len(Plan) = 4
    /\ failed[r] = Plan[3]
    /\ order[r] = <<Plan[1], Plan[2]>>

(* C7: each slot of this.stacks is written at most once in a run, and a    *)
(* recorded slot is never overwritten or removed by a later step.          *)

C7_WriteOnce ==
  /\ [](\A r \in Runs : \A u \in Units :
          /\ writes[r][u] <= 1
          /\ writes[r][u] = 1 <=> u \in DOMAIN stacks[r])
  /\ [][\A r \in Runs : \A u \in DOMAIN stacks[r] :
          u \in DOMAIN stacks'[r] /\ stacks'[r][u] = stacks[r][u]]_vars

C7_Witness ==
  \E r \in Runs :
    /\ pc[r] = "Completed"
    /\ DOMAIN stacks[r] = Units
    /\ \A u \in Units : writes[r][u] = 1

(* C8: after a stack constructor has thrown, no further constructor is     *)
(* invoked in that run, and the units completed before are left exactly as *)
(* they were: nothing is removed, replaced or added.                       *)

C8_FailedIsTerminal ==
  /\ [](\A r \in Runs : failed[r] # "none" => pc[r] = "Failed")
  /\ [][\A r \in Runs :
          /\ failed'[r] # "none" => stacks'[r] = stacks[r] /\ order'[r] = order[r]
                                    /\ deps'[r] = deps[r]
          /\ failed[r] # "none" => invoked'[r] = invoked[r] /\ failed'[r] = failed[r]
                                   /\ pc'[r] = pc[r]]_vars

C8_Witness ==
  \E r \in Runs : \E q \in Runs :
    /\ r # q
    /\ pc[r] = "Failed" /\ pc[q] = "Failed"
    /\ failed[r] = "compute"
    /\ Len(order[r]) >= 3

(* C9 as stated: when an enabled unit has a disabled dependency the run    *)
(* fails before any unit is instantiated.                                  *)

C10_NoDanglingReference ==
  \A r \in Runs :
    /\ \A b \in DOMAIN args[r] : \A p \in DOMAIN args[r][b] :
         args[r][b][p] # Undefined =>
           /\ args[r][b][p].run = r
           /\ args[r][b][p].owner \in DOMAIN stacks[r] \ {b}
           /\ args[r][b][p].owner \in Range(SubSeq(DeclOrder, 1, Index(b) - 1))
    /\ \A e \in deps[r] :
         /\ e[1] \in DOMAIN stacks[r]
         /\ e[2] \in DOMAIN stacks[r]
         /\ Before(order[r], e[2], e[1])

C10_Witness ==
  \E r \in Runs :
    /\ pc[r] = "Completed"
    /\ "compute" \notin DOMAIN stacks[r]
    /\ <<"monitoring", "database">> \in deps[r]
    /\ <<"auth", "storage">> \in deps[r]
    /\ args[r]["monitoring"].instance = Undefined

----------------------------------------------------------------------------
(* Vocabulary of the properties, continued *)

\* the producing unit published the required handle q = <<parameter, unit, handle>>
Published(q) ==
  CASE q[3] = "instance"         -> EnablementPredicate("compute")
                                    /\ config.compute.createAsg # "true"
    [] q[3] = "autoScalingGroup" -> EnablementPredicate("compute")
                                    /\ config.compute.createAsg = "true"
    [] q[3] = "bucket"           -> config.storage.createBucket # "false"
    [] OTHER                     -> EnablementPredicate(q[2])

\* the flag of the configuration that asks for the creation of a category
CreateFlag(u) ==
  CASE u = "network"    -> config.network.createVpc
    [] u = "storage"    -> config.storage.createBucket
    [] u = "database"   -> config.database.createDatabase
    [] u = "auth"       -> config.auth.createAuth
    [] u = "compute"    -> config.compute.createCompute
    [] u = "serverless" -> config.serverless.createServerless
    [] OTHER            -> config.monitoring.createMonitoring

\* one step of the transitive closure of a relation
Compose(R) ==
  R \cup {<<p[1][1], p[2][2]>> : p \in {q \in R \X R : q[1][2] = q[2][1]}}

\* paths of up to eight edges: enough for seven units
Closure(R) == Compose(Compose(Compose(R)))

\* the position of a control state in a run
Rank(p) ==
  CASE p = "Planning"               -> 0
    [] p \in Units                  -> Index(p)
    [] OTHER                        -> Len(DeclOrder) + 1

(* C11 as stated: no constructor is ever called with undefined in place of *)
(* a handle it requires from a dependency.                                 *)

C12_HandleUnchangedByDependent ==
  [][\A r \in Runs : \A g \in SecurityGroups :
       ingress'[r][g] # ingress[r][g] => pc[r] = "network"]_vars

(* C13: every run ends in exactly one of Completed and Failed; until then  *)
(* every step moves it strictly forward through the blocks, each stack     *)
(* constructor is called at most once, and a final state is never left.    *)

C13_Terminates ==
  /\ <>[](\A r \in Runs : Final(r))
  /\ [](\A r \in Runs :
          \A i \in 1..Len(invoked[r]) : \A j \in 1..Len(invoked[r]) :
            invoked[r][i] = invoked[r][j] => i = j)
  /\ [][\A r \in Runs :
          /\ Rank(pc'[r]) >= Rank(pc[r])
          /\ pc'[r] # pc[r] => Rank(pc'[r]) > Rank(pc[r])
          /\ Final(r) => pc'[r] = pc[r]]_vars

C13_Witness ==
  \E r \in Runs : \E q \in Runs :
    /\ pc[r] = "Completed" /\ Len(invoked[r]) = Len(DeclOrder)
    /\ pc[q] = "monitoring"

(* C14: when a run is Completed, the units recorded in this.stacks are     *)
(* exactly the units of the execution plan, instantiated in plan order.    *)

C14_CompletedMatchesPlan ==
  \A r \in Runs :
    pc[r] = "Completed" =>
      /\ DOMAIN stacks[r] = Range(Plan)
      /\ order[r] = Plan
      /\ invoked[r] = Plan
      /\ failed[r] = "none"

C14_Witness ==
  \E r \in Runs :
    /\ pc[r] = "Completed"
    /\ Plan = <<"network", "storage", "auth", "serverless", "monitoring">>
    /\ DOMAIN stacks[r] = {"network", "storage", "auth", "serverless", "monitoring"}

(* C15: every handle a recorded unit was given comes from a unit it has    *)
(* declared a dependency on; auth declares one on storage exactly when it  *)
(* received the bucket, monitoring one on each of compute, database and    *)
(* serverless that supplied it a handle.                                   *)

C15_ConsumedHandlesDeclared ==
  \A r \in Runs : \A b \in DOMAIN stacks[r] :
    /\ \A p \in DOMAIN args[r][b] :
         args[r][b][p] # Undefined => <<b, args[r][b][p].owner>> \in deps[r]
    /\ b = "auth" =>
         (<<"auth", "storage">> \in deps[r] <=> args[r]["auth"].bucket # Undefined)

C15_Witness ==
  \E r \in Runs :
    /\ pc[r] = "Completed"
    /\ {"auth", "compute", "monitoring"} \subseteq DOMAIN stacks[r]
    /\ args[r]["auth"].bucket # Undefined
    /\ args[r]["monitoring"].instance # Undefined
    /\ {<<"auth", "storage">>, <<"monitoring", "compute">>, <<"compute", "network">>}
         \subseteq deps[r]

(* C16: the declared depends-on edges never form a cycle: no unit depends  *)
(* on itself, directly or through other units, and every edge points to a  *)
(* unit instantiated strictly earlier.                                     *)

C16_Acyclic ==
  \A r \in Runs :
    /\ \A u \in Units : <<u, u>> \notin Closure(deps[r])
    /\ \A e \in deps[r] : Before(order[r], e[2], e[1])

C16_Witness ==
  \E r \in Runs :
    /\ pc[r] = "Completed"
    /\ Cardinality(deps[r]) = 7
    /\ <<"monitoring", "network">> \in Closure(deps[r])

(* C17: when the configuration does not specify the creation of a category *)
(* (section absent or create flag unset), no stack and no resource of that *)
(* category is created.                                                    *)

C17_OnlyIfSpecified ==
  \A r \in Runs : \A u \in Units :
    CreateFlag(u) = "undefined" => u \notin DOMAIN stacks[r] /\ constructs[r][u] = {}

(* C18: the configuration createConfigFromEnv returns has every flag that  *)
(* createStacks inspects defined, whatever the environment variables, and  *)
(* a run on it instantiates every unit whose block it executes, all seven  *)
(* in declaration order when it completes.                                 *)

C18_EnvConfigDefined ==
  /\ \A u \in Conditional : CreateFlag(u) # "undefined"
  /\ \A r \in Runs :
       /\ \A u \in Units : Passed(r, u) => u \in DOMAIN stacks[r]
       /\ pc[r] = "Completed" => order[r] = DeclOrder

C18_Witness ==
  \E r \in Runs :
    /\ pc[r] = "Completed"
    /\ order[r] = DeclOrder
    /\ config.environment = "prod"

(* C19: the sequence of instantiated units is a subsequence of the         *)
(* declaration order network, storage, database, auth, compute,            *)
(* serverless, monitoring.                                                 *)

C19_DeclarationOrder ==
  \A r \in Runs :
    \A i \in 1..Len(order[r]) : \A j \in 1..Len(order[r]) :
      i < j => Index(order[r][i]) < Index(order[r][j])

C19_Witness ==
  \E r \in Runs :
    /\ pc[r] = "Completed"
    /\ order[r] = <<"network", "storage", "database", "auth", "monitoring">>

(* C20 as stated: no unit other than network is instantiated as an empty   *)
(* stack, storage included.                                                *)

C20_NoEmptyStack ==
  \A r \in Runs : \A u \in DOMAIN stacks[r] : constructs[r][u] # {}

(* C20 amended: every stack instantiated for database, auth, compute,      *)
(* serverless and monitoring creates its resources and publishes what its  *)
(* own check guards.  The storage stack is instantiated unconditionally    *)
(* and is an empty stack exactly when storage.createBucket is false.       *)

C20_ChecksAgree ==
  \A r \in Runs : \A u \in DOMAIN stacks[r] :
    /\ u \in Conditional => constructs[r][u] # {}
    /\ u = "database" => stacks[r][u].databaseInstance # Undefined
    /\ u = "auth" => stacks[r][u].userPool # Undefined
    /\ u = "compute" =>
         stacks[r][u].instance # Undefined \/ stacks[r][u].autoScalingGroup # Undefined
    /\ u = "monitoring" => stacks[r][u].alarmTopic # Undefined
    /\ u = "storage" =>
         /\ constructs[r][u] = {} <=> config.storage.createBucket = "false"
         /\ stacks[r][u].bucket = Undefined <=> config.storage.createBucket = "false"

C20_Witness ==
  \E r \in Runs :
    /\ pc[r] = "Completed"
    /\ DOMAIN stacks[r] = Units
    /\ constructs[r]["storage"] = {}
    /\ constructs[r]["serverless"] # {}

(* C21: runs do not share state.  Every handle a run records or passes to *)
(* a constructor was allocated by that run, and a step of one run leaves   *)
(* the mapping, the arguments, the edges and the order of every other run  *)
(* unchanged.                                                              *)

C21_RunsIsolated ==
  /\ [](\A r \in Runs :
          /\ \A u \in DOMAIN stacks[r] : \A h \in DOMAIN stacks[r][u] :
               stacks[r][u][h] # Undefined => stacks[r][u][h].run = r
          /\ \A u \in DOMAIN args[r] : \A x \in DOMAIN args[r][u] :
               args[r][u][x] # Undefined => args[r][u][x].run = r)
  /\ [][\A r \in Runs :
          pc'[r] = pc[r] =>
            /\ stacks'[r] = stacks[r]
            /\ args'[r] = args[r]
            /\ deps'[r] = deps[r]
            /\ order'[r] = order[r]]_vars

C21_Witness ==
  \E r \in Runs : \E q \in Runs :
    /\ r # q
    /\ pc[r] = "Completed" /\ pc[q] = "compute"
    /\ "compute" \in DOMAIN stacks[r]
    /\ "database" \in DOMAIN stacks[q]
    /\ args[r]["compute"].vpc # args[q]["database"].vpc

----------------------------------------------------------------------------
(* Vocabulary of the properties: the monitoring stack *)

\* the CloudWatch alarms among the construct ids of the monitoring stack
LambdaAlarmIds ==
  {f \o k : f \in {"api", "worker"}, k \in {"ErrorAlarm", "DurationAlarm"}}

AlarmIds ==
  {"InstanceCpuAlarm", "InstanceStatusCheckAlarm", "AsgCpuAlarm", "RdsCpuAlarm",
   "RdsFreeStorageSpaceAlarm"} \cup LambdaAlarmIds

\* the alarms kept in essential-alarms-only mode
EssentialAlarmIds == {"InstanceCpuAlarm", "AsgCpuAlarm", "RdsCpuAlarm"}

(* C22: when monitoring.createAlarms is false the monitoring stack holds   *)
(* no CloudWatch alarm, whatever the other flags, the environment and the  *)
(* handles it was given.                                                   *)

C22_NoAlarmsWhenDisabled ==
  \A r \in Runs :
    config.monitoring.createAlarms = "false" =>
      constructs[r]["monitoring"] \cap AlarmIds = {}

(* C23: when monitoring.essentialAlarmsOnly is true the only alarms in the *)
(* monitoring stack are the CPU alarms of the instance, the auto-scaling   *)
(* group and the database.                                                 *)

C23_EssentialAlarmsOnly ==
  \A r \in Runs :
    config.monitoring.essentialAlarmsOnly = "true" =>
      constructs[r]["monitoring"] \cap AlarmIds \subseteq EssentialAlarmIds

(* C24: the monitoring constructor registers every construct id at most    *)
(* once: with the handles it was called with, no id is created by both the *)
(* alarms section and the dashboard section, and no run fails in the       *)
(* monitoring block for that reason.                                       *)

C24_UniqueConstructIds ==
  \A r \in Runs :
    /\ "monitoring" \in DOMAIN args[r] =>
         ~DuplicateId(MonitoringIds(config, args[r]["monitoring"]))
    /\ failed[r] = "monitoring" => "monitoring" \in throws

(* C25: the network stack creates a new VPC if and only if                 *)
(* network.createVpc is not false; when it is false no VPC is created and  *)
(* the existing VPC is looked up instead.                                  *)

C25_VpcCreatedIffNotFalse ==
  \A r \in Runs :
    "network" \in DOMAIN stacks[r] =>
      /\ "Vpc" \in constructs[r]["network"] <=> NotFalse(config.network.createVpc)
      /\ config.network.createVpc = "false" => "VpcLookup" \in constructs[r]["network"]

(* C26: a VPC the network stack creates has NAT gateways unless            *)
(* network.natGateways is explicitly false: unset means the documented     *)
(* default true.                                                           *)

C26_NatGatewaysByDefault ==
  \A r \in Runs :
    "Vpc" \in constructs[r]["network"] =>
      (props[r].natGateways = "0" <=> config.network.natGateways = "false")

(* C27: with storage.enableLifecycle true, the lifecycle rule of the       *)
(* bucket expires objects after expireAfterDays days when that is given,   *)
(* in every environment, and sets no expiration when it is not.            *)

C27_ExpirationAsConfigured ==
  \A r \in Runs :
    ("Bucket" \in constructs[r]["storage"] /\ config.storage.enableLifecycle = "true") =>
      /\ props[r].lifecycleRules # {}
      /\ \A rule \in props[r].lifecycleRules :
           rule.expiration = config.storage.expireAfterDays

(* C28: the compute stack publishes exactly one of instance and            *)
(* autoScalingGroup when compute.createCompute is true, the auto-scaling   *)
(* group iff compute.createAsg is true, and neither otherwise; monitoring  *)
(* is never called with both.                                              *)

C28_InstanceXorGroup ==
  \A r \in Runs :
    /\ "compute" \in DOMAIN stacks[r] =>
         /\ config.compute.createCompute = "true"
         /\ stacks[r]["compute"].autoScalingGroup # Undefined
              <=> config.compute.createAsg = "true"
         /\ stacks[r]["compute"].instance # Undefined
              <=> config.compute.createAsg # "true"
    /\ ~Truthy(config.compute.createCompute) =>
         ComputeStack(r, config, NoArgs, heap[r])
           = [instance |-> Undefined, autoScalingGroup |-> Undefined]
    /\ "monitoring" \in DOMAIN args[r] =>
         /\ args[r]["monitoring"].instance = Undefined
              \/ args[r]["monitoring"].autoScalingGroup = Undefined
         /\ config.compute.createCompute # "true" =>
              /\ args[r]["monitoring"].instance = Undefined
              /\ args[r]["monitoring"].autoScalingGroup = Undefined

C28_Witness ==
  \E r \in Runs : \E q \in Runs :
    /\ pc[r] = "Completed" /\ pc[q] = "Completed"
    /\ {"compute", "monitoring"} \subseteq DOMAIN stacks[r]
    /\ config.compute.createAsg = "true"
    /\ args[r]["monitoring"].autoScalingGroup = stacks[r]["compute"].autoScalingGroup
    /\ args[r]["monitoring"].autoScalingGroup # Undefined
    /\ args[r]["monitoring"].instance = Undefined

(* C29: the database instance is created with deletionProtection and      *)
(* multiAz equal to the configured value when one is given, an explicit    *)
(* false in prod and an explicit true elsewhere included, and otherwise    *)
(* true exactly in the environment prod.                                   *)

====
